---- MODULE Spec2Model ----
(***************************************************************************)
(* Model of the image patching drivers of word_pdf_get_img:                *)
(*   image_replacer.py     - in-memory patch, targets named by leaf name   *)
(*   replace_processor.py  - in-memory patch, targets named image<N>       *)
(*   image_replacer_v2.py  - patch of an extracted directory tree, rebuilt *)
(*   file_extractor.py     - listing of the media entries of a document    *)
(* Strings are sequences of one-character strings so that prefix tests,    *)
(* basename, lower-casing, the regular expression and the lexicographic    *)
(* sort are computed as Python computes them.                              *)
(***************************************************************************)
EXTENDS Integers, Sequences, FiniteSets, TLC

VARIABLES driver, docx, replacements, listing, pc, media_files, idx,
          replacement_data, resolved, temp, output, result,
          extracted, work_dir, replacement_success,
          has_images, input_file, same_path, output_before,
          replacement_orders, disk, order_pos, success_count, fail_count,
          out_dir, printed,
          source, target_name, payload,
          lines, loaded, decodes, enc_pos, encoding,
          names, images, all_files, structures

\* State of the directory-based driver only
dirVars == <<extracted, work_dir, replacement_success>>

\* State of the in-memory drivers only
memVars == <<listing, media_files, replacement_data, resolved, temp>>

\* The files at file_path and output_path as one call of
\* replace_images_in_docx finds and leaves them
ioVars == <<input_file, same_path, output_before>>

\* State of the batch drivers only
batchVars == <<replacement_orders, disk, order_pos, success_count, fail_count,
               out_dir, printed>>

\* One call of the image normalizer: the source image, the name of the
\* target and what was encoded
imgVars == <<source, target_name, payload>>

\* One call of an order loader: the rows of the file and the orders returned
loadVars == <<lines, loaded>>

\* The loader's choice of an encoding
encVars == <<decodes, enc_pos, encoding>>

\* One row of the audit report: image names and thumbnails of a document
auditVars == <<names, images>>

\* batch_extractor: the files found and the output directories
extractVars == <<all_files, structures>>

\* State of the helpers that are followed on their own
auxVars == <<imgVars, loadVars, encVars, auditVars, extractVars>>

\* Everything but pc and the helpers' state
restVars ==
  <<driver, docx, replacements, listing, media_files, idx, replacement_data,
    resolved, temp, output, result, dirVars, has_images, ioVars, batchVars>>

vars == <<driver, docx, replacements, listing, pc, media_files, idx,
          replacement_data, resolved, temp, output, result,
          extracted, work_dir, replacement_success,
          has_images, input_file, same_path, output_before,
          replacement_orders, disk, order_pos, success_count, fail_count,
          out_dir, printed,
          source, target_name, payload,
          lines, loaded, decodes, enc_pos, encoding,
          names, images, all_files, structures>>

(* ------------------------------ bounds -------------------------------- *)
MaxEntries == 3
MaxTargets == 2
MaxOrders == 3
MaxRows == 2
MaxPairs == 4
MaxFiles == 3

(* ------------------------------ strings ------------------------------- *)
\* The characters that occur in the model, in code point order.
Alphabet ==
  << ".", "/", "0", "1", "2", "3", "4", "5", "6", "7", "8", "9",
     "A", "E", "G", "I", "J", "M", "P",
     "a", "b", "c", "d", "e", "f", "g", "i", "j", "l", "m", "n", "o", "p", "r",
     "t", "u", "w", "x" >>

Ord(c) == CHOOSE k \in 1..Len(Alphabet) : Alphabet[k] = c

\* str.lower() on one character
LowerChar(c) ==
  CASE c = "A" -> "a"
    [] c = "E" -> "e"
    [] c = "G" -> "g"
    [] c = "I" -> "i"
    [] c = "M" -> "m"
    [] c = "J" -> "j"
    [] c = "P" -> "p"
    [] OTHER -> c

lower(s) == [k \in 1..Len(s) |-> LowerChar(s[k])]

IsDigit(c) == c \in {"0", "1", "2", "3", "4", "5", "6", "7", "8", "9"}

DigitVal(c) == Ord(c) - Ord("0")

\* Python's str < str
RECURSIVE StrLess(_, _)
StrLess(a, b) ==
  IF a = <<>> THEN b # <<>>
  ELSE IF b = <<>> THEN FALSE
  ELSE IF Head(a) = Head(b) THEN StrLess(Tail(a), Tail(b))
  ELSE Ord(Head(a)) < Ord(Head(b))

\* str.startswith
startswith(s, p) == Len(s) >= Len(p) /\ SubSeq(s, 1, Len(p)) = p

\* os.path.basename: what follows the last '/'
RECURSIVE basename(_)
basename(p) ==
  IF \E k \in 1..Len(p) : p[k] = "/"
  THEN basename(SubSeq(p, (CHOOSE k \in 1..Len(p) : p[k] = "/") + 1, Len(p)))
  ELSE p

(* ---------------------------- input universe --------------------------- *)
MediaPrefix == <<"w", "o", "r", "d", "/", "m", "e", "d", "i", "a", "/">>

DocumentXml ==
  <<"w", "o", "r", "d", "/", "d", "o", "c", "u", "m", "e", "n", "t", ".", "x", "m", "l">>
MediaDir  == MediaPrefix
Image2Jpg == MediaPrefix \o <<"i", "m", "a", "g", "e", "2", ".", "j", "p", "g">>
AXPng     == MediaPrefix \o <<"a", "/", "x", ".", "p", "n", "g">>
BXPng     == MediaPrefix \o <<"b", "/", "x", ".", "p", "n", "g">>

\* The bytes of an entry. An original payload is opaque; a payload written
\* by the image normalizer records the encoder, the colour mode and the pixels.
Orig(n) == [format |-> "orig", mode |-> "-", pix |-> n]
Empty   == [format |-> "empty", mode |-> "-", pix |-> 0]

Entry(name, data) == [filename |-> name, data |-> data]

PartEntry == Entry(DocumentXml, Orig(10))
Pool ==
  { Entry(MediaDir, Empty), Entry(Image2Jpg, Orig(11)),
    Entry(AXPng, Orig(12)), Entry(BXPng, Orig(13)) }

\* Sequences without repetition over S, of length at most n
InjSeqs(S, n) ==
  UNION { { s \in [1..k -> S] : \A a, b \in 1..k : a # b => s[a] # s[b] } : k \in 0..n }

\* A readable package: the main document part, then up to MaxEntries further
\* entries in any native order.  An unreadable file has valid = FALSE.
Docs ==
  { [valid |-> TRUE, filelist |-> <<PartEntry>> \o s] : s \in InjSeqs(Pool, MaxEntries) }
    \cup { [valid |-> FALSE, filelist |-> <<>>] }

\* Reference tokens of an instruction
TokImage0  == <<"i", "m", "a", "g", "e", "0">>
TokImage1  == <<"i", "m", "a", "g", "e", "1">>
TokImage2  == <<"i", "m", "a", "g", "e", "2">>
TokUpper   == <<"I", "M", "A", "G", "E", "2", ".", "J", "P", "G">>
TokXPng    == <<"x", ".", "p", "n", "g">>
TokDotDot  == <<".", ".", "/", "d", "o", "c", "u", "m", "e", "n", "t", ".", "x", "m", "l">>
Tokens ==
  { TokImage0, TokImage1, TokImage2, TokUpper, TokXPng, TokDotDot }

\* Source image files on disk
SourceFiles ==
  [ p \in {"new1.png", "new2.png", "gone.png", "bad.png"} |->
      CASE p = "new1.png" -> [exists |-> TRUE, decodable |-> TRUE, mode |-> "RGB", pix |-> 1]
        [] p = "new2.png" -> [exists |-> TRUE, decodable |-> TRUE, mode |-> "RGBA", pix |-> 2]
        [] p = "gone.png" -> [exists |-> FALSE, decodable |-> FALSE, mode |-> "-", pix |-> 0]
        [] p = "bad.png"  -> [exists |-> TRUE, decodable |-> FALSE, mode |-> "-", pix |-> 0] ]

\* The targets an instruction is made of: every token with a usable source
\* image, and one token of each kind with a second usable source and with a
\* source that is missing or cannot be decoded
Targets ==
  { [target |-> t, replacement_path |-> "new1.png"] : t \in Tokens }
    \cup [target : {TokImage1, TokXPng}, replacement_path : {"new2.png"}]
    \cup { [target |-> TokImage1, replacement_path |-> "gone.png"],
           [target |-> TokXPng, replacement_path |-> "bad.png"] }

Instructions == UNION { [1..k -> Targets] : k \in 0..MaxTargets }

Drivers == {"image_replacer", "replace_processor"}

None == [format |-> "none", mode |-> "-", pix |-> 0]

(* ----------------------------- media catalog --------------------------- *)
\* ZipInfo.is_dir
is_dir(info) == Len(info.filename) > 0 /\ info.filename[Len(info.filename)] = "/"

IsMedia(info) == startswith(info.filename, MediaPrefix) /\ ~is_dir(info)

\* The loop "for file_info in filelist: if ...: append": the selected
\* entries, in the order of the archive's entry list.
RECURSIVE SelectMedia(_)
SelectMedia(filelist) ==
  IF filelist = <<>> THEN <<>>
  ELSE IF IsMedia(Head(filelist))
       THEN <<Head(filelist).filename>> \o SelectMedia(Tail(filelist))
       ELSE SelectMedia(Tail(filelist))

\* list.sort() on strings
RECURSIVE Insert(_, _)
Insert(x, s) ==
  IF s = <<>> THEN <<x>>
  ELSE IF StrLess(x, Head(s)) THEN <<x>> \o s
  ELSE <<Head(s)>> \o Insert(x, Tail(s))

RECURSIVE sort(_)
sort(s) == IF s = <<>> THEN <<>> ELSE Insert(s[Len(s)], sort(SubSeq(s, 1, Len(s) - 1)))

\* media_files as replace_images_in_docx builds it
CatalogOf(d) == sort(SelectMedia(d.filelist))

\* file_extractor.get_media_filenames: leaf names, in the entry list's order
get_media_filenames(d) ==
  IF ~d.valid THEN <<>>
  ELSE LET m == SelectMedia(d.filelist) IN [k \in 1..Len(m) |-> basename(m[k])]

(* ------------------------------- resolvers ----------------------------- *)
\* Length of the run of digits that starts at position k of s
RECURSIVE DigitRun(_, _)
DigitRun(s, k) == IF k <= Len(s) /\ IsDigit(s[k]) THEN 1 + DigitRun(s, k + 1) ELSE 0

\* int() of a string of digits
RECURSIVE IntOf(_)
IntOf(s) == IF s = <<>> THEN 0 ELSE 10 * IntOf(SubSeq(s, 1, Len(s) - 1)) + DigitVal(s[Len(s)])

ImageWord == <<"i", "m", "a", "g", "e">>

\* Variant: the 1-based number is returned as it is
get_image_index_one_based(target_image) ==
  LET s == lower(target_image)
      n == DigitRun(s, 6)
  IN IF startswith(s, ImageWord) /\ n >= 1
     THEN IntOf(SubSeq(s, 6, 5 + n))
     ELSE -1

\* get_image_index: re.match(r'image(\d+)', target.lower()) anchors at the
\* start only; whatever follows the digits is ignored.
get_image_index(target_image) ==
  LET s == lower(target_image)
      n == DigitRun(s, 6)
  IN IF startswith(s, ImageWord) /\ n >= 1
     THEN IntOf(SubSeq(s, 6, 5 + n)) - 1
     ELSE -1

\* Variant: the names are compared without regard to letter case
get_image_index_by_filename_nocase(files, target_filename) ==
  IF \E k \in 1..Len(files) : lower(basename(files[k])) = lower(target_filename)
  THEN (CHOOSE k \in 1..Len(files) :
          /\ lower(basename(files[k])) = lower(target_filename)
          /\ \A j \in 1..(k - 1) :
               lower(basename(files[j])) # lower(target_filename)) - 1
  ELSE -1

\* get_image_index_by_filename: index (0-based) of the first element of
\* media_files whose basename equals the target, or -1
get_image_index_by_filename(files, target_filename) ==
  IF \E k \in 1..Len(files) : basename(files[k]) = target_filename
  THEN (CHOOSE k \in 1..Len(files) :
          /\ basename(files[k]) = target_filename
          /\ \A j \in 1..(k - 1) : basename(files[j]) # target_filename) - 1
  ELSE -1

\* The index the driver computes for a target, -1 when the target is skipped
ResolveIndex(drv, files, target_image) ==
  IF drv = "image_replacer"
  THEN get_image_index_by_filename(files, target_image)
  ELSE LET k == get_image_index(target_image)
       IN IF k = -1 \/ k >= Len(files) THEN -1 ELSE k

\* has_images_in_docx: some entry name starts with word/media/
has_images_in_docx(d) ==
  /\ d.valid
  /\ \E k \in 1..Len(d.filelist) : startswith(d.filelist[k].filename, MediaPrefix)

(* ---------------------------- image normalizer ------------------------- *)
\* Modes Pillow's JPEG encoder accepts
JpegModes == {"1", "L", "RGB", "RGBX", "CMYK", "YCbCr"}

\* prepare_replacement_image on the file f: None when the file is missing,
\* cannot be decoded or cannot be encoded; otherwise the JPEG bytes
prepare_image(f) ==
  LET m == IF f.mode \in {"RGBA", "LA", "P"} THEN "RGB" ELSE f.mode
  IN IF ~f.exists \/ ~f.decodable \/ m \notin JpegModes
     THEN None
     ELSE [format |-> "JPEG", mode |-> m, pix |-> f.pix]

prepare_replacement_image(image_path) == prepare_image(SourceFiles[image_path])

(* ------------------------------ patch engine --------------------------- *)
NoFile == [exists |-> FALSE, entries |-> <<>>]

\* No directory at the path
NoTree == [exists |-> FALSE, dirs |-> {}, files |-> <<>>]

\* The file at file_path
InputFile(d) == [exists |-> TRUE, entries |-> d.filelist]

\* No batch is running
BatchIdle ==
  /\ replacement_orders = <<>>
  /\ disk = <<>>
  /\ order_pos = 1
  /\ success_count = 0
  /\ fail_count = 0
  /\ out_dir = <<>>
  /\ printed = <<>>

\* No helper is running
AuxIdle ==
  /\ source = None
  /\ target_name = <<>>
  /\ payload = None
  /\ lines = <<>>
  /\ loaded = <<>>
  /\ decodes = {}
  /\ enc_pos = 1
  /\ encoding = "-"
  /\ names = <<>>
  /\ images = <<>>
  /\ all_files = <<>>
  /\ structures = <<>>

\* Variant: a key already present keeps its first value (dict.setdefault)
DictPutFirst(dict, key, val) ==
  [k \in (DOMAIN dict) \cup {key} |-> IF k \in DOMAIN dict THEN dict[k] ELSE val]

\* replacement_data[target_filename] = {...}: insert or overwrite a key
DictPut(dict, key, val) ==
  [k \in (DOMAIN dict) \cup {key} |-> IF k = key THEN val ELSE dict[k]]

\* Variant: directory markers are not copied
RECURSIVE new_zip_skip_dirs(_, _)
new_zip_skip_dirs(filelist, data) ==
  IF filelist = <<>> THEN <<>>
  ELSE LET item == Head(filelist)
       IN IF is_dir(item) THEN new_zip_skip_dirs(Tail(filelist), data)
          ELSE <<Entry(item.filename,
                       IF item.filename \in DOMAIN data
                       THEN data[item.filename].data
                       ELSE item.data)>> \o new_zip_skip_dirs(Tail(filelist), data)

\* Variant: the media entries are written empty unless replaced
RECURSIVE new_zip_blank_media(_, _)
new_zip_blank_media(filelist, data) ==
  IF filelist = <<>> THEN <<>>
  ELSE LET item == Head(filelist)
       IN <<Entry(item.filename,
                  IF item.filename \in DOMAIN data
                  THEN data[item.filename].data
                  ELSE IF IsMedia(item) THEN Empty ELSE item.data)>>
          \o new_zip_blank_media(Tail(filelist), data)

\* The loop over original_zip.filelist that fills new_zip: one entry written
\* for each entry read, under the same name
RECURSIVE new_zip(_, _)
new_zip(filelist, data) ==
  IF filelist = <<>> THEN <<>>
  ELSE LET item == Head(filelist)
       IN <<Entry(item.filename,
                  IF item.filename \in DOMAIN data
                  THEN data[item.filename].data
                  ELSE item.data)>> \o new_zip(Tail(filelist), data)

Init ==
  /\ driver \in Drivers
  /\ docx \in Docs
  /\ replacements \in Instructions
  /\ listing = <<>>
  /\ pc = "list"
  /\ media_files = <<>>
  /\ idx = 1
  /\ replacement_data = <<>>
  /\ resolved = <<>>
  /\ temp = NoFile
  /\ output = NoFile
  /\ result = "pending"
  /\ extracted = NoTree
  /\ work_dir = NoTree
  /\ replacement_success = TRUE
  /\ has_images = FALSE
  /\ input_file = InputFile(docx)
  /\ same_path = FALSE
  /\ output_before = NoFile
  /\ BatchIdle
  /\ AuxIdle

\* file_extractor: filter_files_with_images asks has_images_in_docx, and
\* save_to_csv_with_image_info writes the row of the document, the listing
\* against which the instruction is authored
ListMedia ==
  /\ pc = "list"
  /\ has_images' = has_images_in_docx(docx)
  /\ listing' = get_media_filenames(docx)
  /\ pc' = "open"
  /\ UNCHANGED <<driver, docx, replacements, media_files, idx, replacement_data,
                 resolved, temp, output, result,
                 dirVars,
                 ioVars, batchVars, auxVars>>

\* replace_images_in_docx up to media_files.sort(): the temporary file is
\* created, the archive opened and the catalog built
OpenDocx ==
  /\ pc = "open"
  /\ docx.valid
  /\ temp' = [exists |-> TRUE, entries |-> <<>>]
  /\ media_files' = CatalogOf(docx)
  /\ pc' = "resolve"
  /\ UNCHANGED <<driver, docx, replacements, listing, idx, replacement_data,
                 resolved, output, result,
                 dirVars,
                 has_images, ioVars, batchVars, auxVars>>

\* zipfile.ZipFile(file_path) raises: the temporary file is unlinked and
\* None is returned
OpenFails ==
  /\ pc = "open"
  /\ ~docx.valid
  /\ temp' = NoFile
  /\ result' = "None"
  /\ pc' = "done"
  /\ UNCHANGED <<driver, docx, replacements, listing, media_files, idx,
                 replacement_data, resolved, output,
                 dirVars,
                 has_images, ioVars, batchVars, auxVars>>

\* One iteration of "for replacement in replacements" that ends in continue
\* because the target has no index in media_files
ResolveSkip ==
  /\ pc = "resolve"
  /\ idx <= Len(replacements)
  /\ ResolveIndex(driver, media_files, replacements[idx].target) = -1
  /\ resolved' = Append(resolved, <<>>)
  /\ idx' = idx + 1
  /\ UNCHANGED <<driver, docx, replacements, listing, pc, media_files,
                 replacement_data, temp, output, result,
                 dirVars,
                 has_images, ioVars, batchVars, auxVars>>

\* Variant: a source image that cannot be prepared ends the call with None
ResolveNoImageAborts ==
  /\ pc = "resolve"
  /\ idx <= Len(replacements)
  /\ ResolveIndex(driver, media_files, replacements[idx].target) # -1
  /\ prepare_replacement_image(replacements[idx].replacement_path) = None
  /\ temp' = NoFile
  /\ result' = "None"
  /\ pc' = "done"
  /\ UNCHANGED <<driver, docx, replacements, listing, media_files, idx,
                 replacement_data, resolved, output,
                 dirVars,
                 has_images, ioVars, batchVars, auxVars>>

\* One iteration that ends in continue because the source image cannot be prepared
ResolveNoImage ==
  /\ pc = "resolve"
  /\ idx <= Len(replacements)
  /\ ResolveIndex(driver, media_files, replacements[idx].target) # -1
  /\ prepare_replacement_image(replacements[idx].replacement_path) = None
  /\ resolved' = Append(resolved, <<>>)
  /\ idx' = idx + 1
  /\ UNCHANGED <<driver, docx, replacements, listing, pc, media_files,
                 replacement_data, temp, output, result,
                 dirVars,
                 has_images, ioVars, batchVars, auxVars>>

\* One iteration that records the new payload under the target's entry name
ResolveAssign ==
  /\ pc = "resolve"
  /\ idx <= Len(replacements)
  /\ LET r == replacements[idx]
         image_index == ResolveIndex(driver, media_files, r.target)
         new_image_data == prepare_replacement_image(r.replacement_path)
     IN /\ image_index # -1
        /\ new_image_data # None
        /\ LET target_filename == media_files[image_index + 1]
           IN /\ replacement_data' =
                   DictPut(replacement_data, target_filename,
                           [data |-> new_image_data, target |-> r.target,
                            source |-> r.replacement_path])
              /\ resolved' = Append(resolved, target_filename)
  /\ idx' = idx + 1
  /\ UNCHANGED <<driver, docx, replacements, listing, pc, media_files,
                 temp, output, result,
                 dirVars,
                 has_images, ioVars, batchVars, auxVars>>

\* The new archive is written to the temporary file
WriteZip ==
  /\ pc = "resolve"
  /\ idx > Len(replacements)
  /\ temp' = [exists |-> TRUE, entries |-> new_zip(docx.filelist, replacement_data)]
  /\ pc' = "move"
  /\ UNCHANGED <<driver, docx, replacements, listing, media_files, idx,
                 replacement_data, resolved, output, result,
                 dirVars,
                 has_images, ioVars, batchVars, auxVars>>

\* shutil.move(temp_path, output_path); return output_path
MoveToOutput ==
  /\ pc = "move"
  /\ output' = temp
  /\ input_file' = IF same_path THEN temp ELSE input_file
  /\ temp' = NoFile
  /\ result' = "output_path"
  /\ pc' = "done"
  /\ UNCHANGED <<driver, docx, replacements, listing, media_files, idx,
                 replacement_data, resolved,
                 dirVars,
                 has_images, same_path, output_before, batchVars, auxVars>>

Next ==
  \/ ListMedia
  \/ OpenDocx
  \/ OpenFails
  \/ ResolveSkip
  \/ ResolveNoImage
  \/ ResolveAssign
  \/ WriteZip
  \/ MoveToOutput

Spec == Init /\ [][Next]_vars

(* ------------------- the files of one in-memory patch ------------------ *)
\* The targets of the calls whose files are followed: one ordinal, one leaf
\* name, one with a missing source
IOTargets ==
  { [target |-> TokImage1, replacement_path |-> "new1.png"],
    [target |-> TokXPng, replacement_path |-> "new1.png"],
    [target |-> TokImage1, replacement_path |-> "gone.png"] }

IOInstructions == UNION { [1..k -> IOTargets] : k \in 0..MaxTargets }

\* A document an earlier run left at output_path
OldOutput == [exists |-> TRUE, entries |-> <<PartEntry>>]

\* A file whose writing was cut short
Truncated == [exists |-> TRUE, entries |-> <<>>]

\* One call of replace_images_in_docx with its surroundings: output_dir is
\* the directory of file_path (output_path is file_path) or another
\* directory, where output_path is free or taken
InitIO ==
  /\ driver \in Drivers
  /\ docx \in Docs
  /\ replacements \in IOInstructions
  /\ listing = <<>>
  /\ pc = "list"
  /\ media_files = <<>>
  /\ idx = 1
  /\ replacement_data = <<>>
  /\ resolved = <<>>
  /\ temp = NoFile
  /\ result = "pending"
  /\ extracted = NoTree
  /\ work_dir = NoTree
  /\ replacement_success = TRUE
  /\ has_images = FALSE
  /\ input_file = InputFile(docx)
  /\ same_path \in BOOLEAN
  /\ output_before \in (IF same_path THEN {InputFile(docx)} ELSE {NoFile, OldOutput})
  /\ output = output_before
  /\ BatchIdle
  /\ AuxIdle

\* os.makedirs(output_dir) or tempfile.mkstemp raises: the outer handler
\* returns None
MakeTempFails ==
  /\ pc = "open"
  /\ result' = "None"
  /\ pc' = "done"
  /\ UNCHANGED <<driver, docx, replacements, listing, media_files, idx,
                 replacement_data, resolved, temp, output, dirVars,
                 has_images, ioVars, batchVars, auxVars>>

\* Reading an entry or writing the new archive raises: the handler unlinks
\* the temporary file and None is returned
WriteZipFails ==
  /\ pc = "resolve"
  /\ idx > Len(replacements)
  /\ temp' = NoFile
  /\ result' = "None"
  /\ pc' = "done"
  /\ UNCHANGED <<driver, docx, replacements, listing, media_files, idx,
                 replacement_data, resolved, output, dirVars,
                 has_images, ioVars, batchVars, auxVars>>

\* shutil.move raises.  The temporary file is in the system's temporary
\* directory: when os.rename cannot reach output_path (another file system,
\* or an existing file on Windows) shutil.move copies, and a copy that fails
\* has already truncated output_path.  The handler unlinks the temporary
\* file and None is returned.
MoveFails ==
  /\ pc = "move"
  /\ \E after \in {output, Truncated} :
       /\ output' = after
       /\ input_file' = IF same_path THEN after ELSE input_file
  /\ temp' = NoFile
  /\ result' = "None"
  /\ pc' = "done"
  /\ UNCHANGED <<driver, docx, replacements, listing, media_files, idx,
                 replacement_data, resolved, dirVars,
                 has_images, same_path, output_before, batchVars, auxVars>>

NextIO ==
  \/ ListMedia
  \/ OpenDocx
  \/ OpenFails
  \/ ResolveSkip
  \/ ResolveNoImage
  \/ ResolveAssign
  \/ WriteZip
  \/ MoveToOutput
  \/ MakeTempFails
  \/ WriteZipFails
  \/ MoveFails

SpecIO == InitIO /\ [][NextIO]_vars

(* ------------------------ directory-based engine ----------------------- *)
\* Reference tokens of the directory-based driver: names relative to word/media
TokImage2Jpg == <<"i", "m", "a", "g", "e", "2", ".", "j", "p", "g">>
TokAXPng     == <<"a", "/", "x", ".", "p", "n", "g">>
StructureTokens == { TokImage2Jpg, TokAXPng, TokXPng, TokUpper, TokDotDot }

StructureTargets ==
  { [target |-> t, replacement_path |-> "new1.png"] : t \in StructureTokens }
    \cup [target : {TokImage2Jpg, TokAXPng}, replacement_path : {"new2.png", "gone.png"}]

StructureInstructions == UNION { [1..k -> StructureTargets] : k \in 0..MaxTargets }

\* os.path.dirname of a relative path without trailing separator
dirname(p) ==
  LET slashes == { k \in 1..Len(p) : p[k] = "/" }
  IN IF slashes = {} THEN <<>>
     ELSE SubSeq(p, 1, (CHOOSE k \in slashes : \A j \in slashes : j <= k) - 1)

\* str.split('/')
RECURSIVE Split(_)
Split(s) ==
  IF \E k \in 1..Len(s) : s[k] = "/"
  THEN LET k == CHOOSE a \in 1..Len(s) : s[a] = "/" /\ \A b \in 1..(a - 1) : s[b] # "/"
       IN <<SubSeq(s, 1, k - 1)>> \o Split(SubSeq(s, k + 1, Len(s)))
  ELSE <<s>>

\* The directories a path lies in, below the root of the tree
Ancestors(p) == { SubSeq(p, 1, k - 1) : k \in { j \in 1..Len(p) : p[j] = "/" } }

\* ZipFile.extractall: every file entry is written under its name, its parent
\* directories and every directory marker become directories
extractall(filelist) ==
  LET members == { filelist[k] : k \in 1..Len(filelist) }
      filesOf == { e \in members : ~is_dir(e) }
  IN [ exists |-> TRUE,
       dirs   |-> {<<>>} \cup UNION { Ancestors(e.filename) : e \in members },
       files  |-> [ p \in { e.filename : e \in filesOf } |->
                      (CHOOSE e \in filesOf : e.filename = p).data ] ]

TreeExists(tree, p) == p \in tree.dirs \/ p \in DOMAIN tree.files

MediaDirPath == <<"w", "o", "r", "d", "/", "m", "e", "d", "i", "a">>

\* The file system's lookup of the remaining components from directory cur:
\* "" and "." stay, ".." climbs, a name descends; every directory passed
\* through must exist.  Climbing above the root of the tree leaves it.
RECURSIVE Lookup(_, _, _)
Lookup(tree, cur, comps) ==
  IF comps = <<>> THEN [found |-> TreeExists(tree, cur), path |-> cur]
  ELSE IF cur \notin tree.dirs THEN [found |-> FALSE, path |-> cur]
  ELSE LET c == Head(comps)
       IN IF c = <<>> \/ c = <<".">> THEN Lookup(tree, cur, Tail(comps))
          ELSE IF c = <<".", ".">>
               THEN (IF cur = <<>> THEN [found |-> FALSE, path |-> cur]
                     ELSE Lookup(tree, dirname(cur), Tail(comps)))
          ELSE Lookup(tree, IF cur = <<>> THEN c ELSE cur \o <<"/">> \o c, Tail(comps))

\* os.path.splitext(...)[1]: from the last dot of the final component, unless
\* that dot is one of its leading dots
splitext_ext(name) ==
  LET b == basename(name)
      lead == IF \E k \in 1..Len(b) : b[k] # "."
              THEN CHOOSE k \in 1..Len(b) : b[k] # "." /\ \A j \in 1..(k - 1) : b[j] = "."
              ELSE Len(b) + 1
      dots == { k \in (lead + 1)..Len(b) : b[k] = "." }
  IN IF dots = {} THEN <<>>
     ELSE SubSeq(b, CHOOSE k \in dots : \A j \in dots : j <= k, Len(b))

\* Modes Pillow's PNG encoder accepts
PngModes == {"1", "L", "LA", "I", "I;16", "P", "RGB", "RGBA"}

\* The encoder replace_image_in_structure picks from the target's extension
StructureFormat(image_name) ==
  LET ext == lower(splitext_ext(image_name))
  IN IF ext \in { <<".", "j", "p", "g">>, <<".", "j", "p", "e", "g">> } THEN "JPEG"
     ELSE IF ext = <<".", "p", "n", "g">> THEN "PNG"
     ELSE "JPEG"

\* The with-block of replace_image_in_structure on the source file f: the
\* image is converted and saved in the format of the target's extension.
\* data is what the target file holds afterwards, None when it was not
\* touched; Image.save opens the target for writing before it encodes, so an
\* encoder error leaves the target empty.
save_in_structure(f, name) ==
  LET m == IF f.mode \in {"RGBA", "LA", "P"} THEN "RGB" ELSE f.mode
      fmt == StructureFormat(name)
  IN IF ~f.exists \/ ~f.decodable
     THEN [ok |-> FALSE, data |-> None]
     ELSE IF m \notin (IF fmt = "PNG" THEN PngModes ELSE JpegModes)
     THEN [ok |-> FALSE, data |-> Empty]
     ELSE [ok |-> TRUE, data |-> [format |-> fmt, mode |-> m, pix |-> f.pix]]

\* replace_image_in_structure: the file that word/media/<image_name> leads to
\* is overwritten with the re-encoded source image.  ok = FALSE when the
\* target or the source is missing or an exception is caught.
replace_image_in_structure(tree, image_name, replacement_path) ==
  LET r == Lookup(tree, MediaDirPath, Split(image_name))
      e == save_in_structure(SourceFiles[replacement_path], image_name)
  IN IF ~r.found \/ r.path \in tree.dirs \/ e.data = None
     THEN [ok |-> FALSE, tree |-> tree]
     ELSE [ok |-> e.ok, tree |-> [tree EXCEPT !.files[r.path] = e.data]]

\* All orders in which the elements of a set can be listed
Perms(S) ==
  { s \in [1..Cardinality(S) -> S] :
      \A a, b \in 1..Cardinality(S) : a # b => s[a] # s[b] }

\* os.walk(top): the files of a directory, then each sub-directory in turn;
\* the order of names inside one directory is the file system's
RECURSIVE Walk(_, _)
RECURSIVE WalkEach(_, _)
Walk(tree, d) ==
  LET here == { p \in DOMAIN tree.files : dirname(p) = d }
      subs == { q \in tree.dirs : q # <<>> /\ dirname(q) = d }
  IN { fs \o rest : fs \in Perms(here),
                    rest \in UNION { WalkEach(tree, ds) : ds \in Perms(subs) } }
WalkEach(tree, ds) ==
  IF ds = <<>> THEN { <<>> }
  ELSE { a \o b : a \in Walk(tree, Head(ds)), b \in WalkEach(tree, Tail(ds)) }

\* rebuild_docx_from_structure: one entry per file met by os.walk, named by
\* its path relative to the tree
rebuild_docx_from_structure(tree, order) ==
  [k \in 1..Len(order) |-> Entry(order[k], tree.files[order[k]])]

InitStructure ==
  /\ driver = "image_replacer_v2"
  /\ docx \in Docs
  /\ replacements \in StructureInstructions
  /\ listing = <<>>
  /\ pc = "extract"
  /\ media_files = <<>>
  /\ idx = 1
  /\ replacement_data = <<>>
  /\ resolved = <<>>
  /\ temp = NoFile
  /\ output = NoFile
  /\ result = "pending"
  /\ extracted = NoTree
  /\ work_dir = NoTree
  /\ replacement_success = TRUE
  /\ has_images = FALSE
  /\ input_file = InputFile(docx)
  /\ same_path = FALSE
  /\ output_before = NoFile
  /\ BatchIdle
  /\ AuxIdle

\* file_extractor.extract_docx_structure on a readable package
ExtractStructure ==
  /\ pc = "extract"
  /\ docx.valid
  /\ extracted' = extractall(docx.filelist)
  /\ pc' = "find"
  /\ UNCHANGED <<driver, docx, replacements, idx, output, result, memVars,
                 work_dir, replacement_success,
                 has_images, ioVars, batchVars, auxVars>>

\* extract_docx_structure returns None: nothing is extracted
ExtractFails ==
  /\ pc = "extract"
  /\ ~docx.valid
  /\ pc' = "find"
  /\ UNCHANGED <<driver, docx, replacements, idx, output, result, memVars, dirVars,
                 has_images, ioVars, batchVars, auxVars>>

\* process_image_replacements: find_extracted_structure finds nothing, the
\* document is skipped
StructureMissing ==
  /\ pc = "find"
  /\ ~extracted.exists
  /\ result' = "skipped"
  /\ pc' = "done"
  /\ UNCHANGED <<driver, docx, replacements, idx, output, memVars, dirVars,
                 has_images, ioVars, batchVars, auxVars>>

\* The extracted structure is copied to the work directory
CopyToWorkDir ==
  /\ pc = "find"
  /\ extracted.exists
  /\ work_dir' = extracted
  /\ replacement_success' = TRUE
  /\ idx' = 1
  /\ pc' = "replace"
  /\ UNCHANGED <<driver, docx, replacements, output, result, memVars, extracted,
                 has_images, ioVars, batchVars, auxVars>>

\* shutil.copytree raises, before or after it created the work directory.
\* The call is in no try block: the exception leaves
\* process_image_replacements
CopyFails ==
  /\ pc = "find"
  /\ extracted.exists
  /\ work_dir' \in {NoTree, [exists |-> TRUE, dirs |-> {<<>>}, files |-> <<>>]}
  /\ result' = "raised"
  /\ pc' = "raised"
  /\ UNCHANGED <<driver, docx, replacements, idx, output, memVars, extracted,
                 replacement_success, has_images, ioVars, batchVars, auxVars>>

\* One iteration of "for image_name, replacement_path in replacement_pairs"
\* in which replace_image_in_structure returns True
ReplaceInStructure ==
  /\ pc = "replace"
  /\ idx <= Len(replacements)
  /\ LET r == replace_image_in_structure(work_dir, replacements[idx].target,
                                         replacements[idx].replacement_path)
     IN /\ r.ok
        /\ work_dir' = r.tree
  /\ idx' = idx + 1
  /\ UNCHANGED <<driver, docx, replacements, pc, output, result, memVars,
                 extracted, replacement_success,
                 has_images, ioVars, batchVars, auxVars>>

\* One iteration in which replace_image_in_structure returns False
ReplaceInStructureFails ==
  /\ pc = "replace"
  /\ idx <= Len(replacements)
  /\ LET r == replace_image_in_structure(work_dir, replacements[idx].target,
                                         replacements[idx].replacement_path)
     IN /\ ~r.ok
        /\ work_dir' = r.tree
  /\ replacement_success' = FALSE
  /\ idx' = idx + 1
  /\ UNCHANGED <<driver, docx, replacements, pc, output, result, memVars, extracted,
                 has_images, ioVars, batchVars, auxVars>>

\* Every replacement succeeded: the work directory is zipped to the output path
Rebuild ==
  /\ pc = "replace"
  /\ idx > Len(replacements)
  /\ replacement_success
  /\ \E order \in Walk(work_dir, <<>>) :
       output' = [exists |-> TRUE,
                  entries |-> rebuild_docx_from_structure(work_dir, order)]
  /\ result' = "output_path"
  /\ pc' = "cleanup"
  /\ UNCHANGED <<driver, docx, replacements, idx, memVars, dirVars,
                 has_images, ioVars, batchVars, auxVars>>

\* rebuild_docx_from_structure catches an exception and returns False: the
\* output path is untouched, or holds the entries written so far
RebuildFails ==
  /\ pc = "replace"
  /\ idx > Len(replacements)
  /\ replacement_success
  /\ \E order \in Walk(work_dir, <<>>), k \in 0..MaxEntries :
       /\ k < Len(order)
       /\ output' \in
            { output,
              [exists |-> TRUE,
               entries |-> SubSeq(rebuild_docx_from_structure(work_dir, order), 1, k)] }
  /\ result' = "failed"
  /\ pc' = "cleanup"
  /\ UNCHANGED <<driver, docx, replacements, idx, memVars, dirVars,
                 has_images, ioVars, batchVars, auxVars>>

\* Some replacement failed: no document is written
ReplacementFailed ==
  /\ pc = "replace"
  /\ idx > Len(replacements)
  /\ ~replacement_success
  /\ result' = "failed"
  /\ pc' = "cleanup"
  /\ UNCHANGED <<driver, docx, replacements, idx, output, memVars, dirVars,
                 has_images, ioVars, batchVars, auxVars>>

\* shutil.rmtree(work_dir)
RemoveWorkDir ==
  /\ pc = "cleanup"
  /\ work_dir' = NoTree
  /\ pc' = "done"
  /\ UNCHANGED <<driver, docx, replacements, idx, output, result, memVars,
                 extracted, replacement_success,
                 has_images, ioVars, batchVars, auxVars>>

\* shutil.rmtree(work_dir) raises and "except: pass" swallows it: the work
\* directory stays
RemoveWorkDirFails ==
  /\ pc = "cleanup"
  /\ pc' = "done"
  /\ UNCHANGED <<driver, docx, replacements, idx, output, result, memVars,
                 dirVars, has_images, ioVars, batchVars, auxVars>>

NextStructure ==
  \/ ExtractStructure
  \/ ExtractFails
  \/ StructureMissing
  \/ CopyToWorkDir
  \/ CopyFails
  \/ RebuildFails
  \/ RemoveWorkDirFails
  \/ ReplaceInStructure
  \/ ReplaceInStructureFails
  \/ Rebuild
  \/ ReplacementFailed
  \/ RemoveWorkDir

SpecStructure == InitStructure /\ [][NextStructure]_vars

(* ---------------------------- image normalizer ------------------------- *)
\* The modes Image.open gives an image
Modes ==
  {"1", "L", "LA", "P", "PA", "RGB", "RGBA", "RGBX", "CMYK", "YCbCr", "LAB",
   "I", "I;16", "F"}

TokAJpeg == <<"a", ".", "j", "p", "e", "g">>
TokAGif  == <<"a", ".", "g", "i", "f">>

\* Names of target entries, by extension
ImageNames == {TokXPng, TokImage2Jpg, TokUpper, TokAJpeg, TokAGif}

\* The files a replacement path may lead to
Sources ==
  [exists : {TRUE}, decodable : BOOLEAN, mode : Modes, pix : {1}]
    \cup {[exists |-> FALSE, decodable |-> FALSE, mode |-> "-", pix |-> 0]}

\* Every variable but pc and the helpers' has its initial value
RestIdle ==
  /\ docx = [valid |-> FALSE, filelist |-> <<>>]
  /\ replacements = <<>>
  /\ listing = <<>>
  /\ media_files = <<>>
  /\ idx = 1
  /\ replacement_data = <<>>
  /\ resolved = <<>>
  /\ temp = NoFile
  /\ output = NoFile
  /\ result = "pending"
  /\ extracted = NoTree
  /\ work_dir = NoTree
  /\ replacement_success = TRUE
  /\ has_images = FALSE
  /\ input_file = NoFile
  /\ same_path = FALSE
  /\ output_before = NoFile
  /\ BatchIdle

InitImage ==
  /\ driver \in Drivers \cup {"image_replacer_v2"}
  /\ pc = "encode"
  /\ RestIdle
  /\ source \in Sources
  /\ target_name \in ImageNames
  /\ payload = None
  /\ lines = <<>>
  /\ loaded = <<>>
  /\ decodes = {}
  /\ enc_pos = 1
  /\ encoding = "-"
  /\ names = <<>>
  /\ images = <<>>
  /\ all_files = <<>>
  /\ structures = <<>>

\* prepare_replacement_image of image_replacer and replace_processor
PrepareImage ==
  /\ pc = "encode"
  /\ driver \in Drivers
  /\ payload' = prepare_image(source)
  /\ pc' = "encoded"
  /\ UNCHANGED <<restVars, source, target_name, loadVars, encVars, auditVars,
                 extractVars>>

\* The with-block of image_replacer_v2.replace_image_in_structure
SaveInStructure ==
  /\ pc = "encode"
  /\ driver = "image_replacer_v2"
  /\ payload' = save_in_structure(source, target_name).data
  /\ pc' = "encoded"
  /\ UNCHANGED <<restVars, source, target_name, loadVars, encVars, auditVars,
                 extractVars>>

NextImage ==
  \/ PrepareImage
  \/ SaveInStructure

SpecImage == InitImage /\ [][NextImage]_vars

(* ------------------------------ order loaders ------------------------- *)
Loaders == {"image_replacer", "replace_processor", "image_replacer_v2"}

\* The text of column 0 of a header row
HeaderLabel == "header label"

\* A pair of cells: both filled, one of them empty, both empty
PairKinds == {"full", "half", "none"}

\* The header row of a file with n pairs of columns: every cell is a title
HeaderRow(n) == [c0 |-> HeaderLabel, pairs |-> [k \in 1..n |-> "full"]]

\* The data rows of such a file, with or without a document path
DataRows(n) == [c0 : {"", "doc"}, pairs : [1..n -> PairKinds]]

\* The files with n pairs of columns: a header row or none, then up to
\* MaxRows data rows
TablesOf(n) ==
  { h \o d : h \in { <<>>, <<HeaderRow(n)>> },
             d \in UNION { [1..r -> DataRows(n)] : r \in 0..MaxRows } }

\* The pairs of a row a loader takes, in column order: those with both cells
\* filled; replace_processor looks at the first three pairs only
row_pairs(drv, row) ==
  SelectSeq([k \in 1..Len(row.pairs) |-> k],
            LAMBDA k : /\ row.pairs[k] = "full"
                       /\ (drv = "replace_processor" => k <= 3))

\* The first row of the file that a loader treats as data: image_replacer
\* reads with header=None and skips row 0 when its column 0 is the label,
\* the other two let read_csv take the first row as the column names
start_row(drv, file) ==
  IF drv = "image_replacer"
  THEN (IF file[1].c0 = HeaderLabel THEN 2 ELSE 1)
  ELSE 2

\* The order a loader makes of row i; image_replacer_v2 takes str() of
\* column 0, which is "nan" for an empty cell
order_of(drv, file, i) ==
  [file_path |-> IF drv = "image_replacer_v2" /\ file[i].c0 = "" THEN "nan"
                 ELSE file[i].c0,
   row |-> i,
   replacements |-> row_pairs(drv, file[i])]

\* load_replacement_orders, load_replacement_orders_from_csv and
\* read_replacement_csv: an empty file makes read_csv raise, and no order is
\* returned
load_orders(drv, file) ==
  IF file = <<>> THEN <<>>
  ELSE SelectSeq([i \in 1..Len(file) |-> order_of(drv, file, i)],
                 LAMBDA o : /\ o.row >= start_row(drv, file)
                            /\ o.file_path # ""
                            /\ o.replacements # <<>>)

InitLoad ==
  /\ driver \in Loaders
  /\ pc = "load"
  /\ RestIdle
  /\ source = None
  /\ target_name = <<>>
  /\ payload = None
  /\ \E n \in 1..MaxPairs : lines \in TablesOf(n)
  /\ loaded = <<>>
  /\ decodes = {}
  /\ enc_pos = 1
  /\ encoding = "-"
  /\ names = <<>>
  /\ images = <<>>
  /\ all_files = <<>>
  /\ structures = <<>>

\* image_replacer.load_replacement_orders
LoadReplacementOrders ==
  /\ pc = "load"
  /\ driver = "image_replacer"
  /\ loaded' = load_orders(driver, lines)
  /\ pc' = "loaded"
  /\ UNCHANGED <<restVars, imgVars, lines, encVars, auditVars, extractVars>>

\* replace_processor.load_replacement_orders_from_csv
LoadReplacementOrdersFromCsv ==
  /\ pc = "load"
  /\ driver = "replace_processor"
  /\ loaded' = load_orders(driver, lines)
  /\ pc' = "loaded"
  /\ UNCHANGED <<restVars, imgVars, lines, encVars, auditVars, extractVars>>

\* image_replacer_v2.read_replacement_csv
ReadReplacementCsv ==
  /\ pc = "load"
  /\ driver = "image_replacer_v2"
  /\ loaded' = load_orders(driver, lines)
  /\ pc' = "loaded"
  /\ UNCHANGED <<restVars, imgVars, lines, encVars, auditVars, extractVars>>

NextLoad ==
  \/ LoadReplacementOrders
  \/ LoadReplacementOrdersFromCsv
  \/ ReadReplacementCsv

SpecLoad == InitLoad /\ [][NextLoad]_vars

(* ------------------------------ audit report --------------------------- *)
AuditDrivers == {"file_extractor", "run_search_process"}

\* Bytes no image decoder identifies
Garbage == [format |-> "garbage", mode |-> "-", pix |-> 0]

Image1Png == MediaPrefix \o <<"i", "m", "a", "g", "e", "1", ".", "p", "n", "g">>
Image0Gif == MediaPrefix \o <<"i", "m", "a", "g", "e", "0", ".", "g", "i", "f">>

\* Media entries of an audited document: two pictures, a zero-length file
\* and a file that is not an image
AuditPool ==
  { Entry(Image2Jpg, Orig(11)), Entry(AXPng, Orig(12)),
    Entry(Image1Png, Empty), Entry(Image0Gif, Garbage) }

AuditDocs ==
  { [valid |-> TRUE, filelist |-> <<PartEntry>> \o s] :
      s \in InjSeqs(AuditPool, MaxEntries) }
    \cup { [valid |-> FALSE, filelist |-> <<>>] }

\* The media entries themselves, in the order of the archive's entry list
RECURSIVE SelectMediaEntries(_)
SelectMediaEntries(filelist) ==
  IF filelist = <<>> THEN <<>>
  ELSE IF IsMedia(Head(filelist))
       THEN <<Head(filelist)>> \o SelectMediaEntries(Tail(filelist))
       ELSE SelectMediaEntries(Tail(filelist))

\* Image.open succeeds on the bytes
Decodes(data) == data # Empty /\ data # Garbage

Thumbnail(info)   == [of |-> info.filename, shown |-> "image"]
Placeholder(info) == [of |-> info.filename, shown |-> "placeholder"]

\* file_extractor.extract_images_from_docx: one image per media entry, a
\* gray placeholder for an empty or unreadable one
extract_images_with_placeholders(d) ==
  IF ~d.valid THEN <<>>
  ELSE LET m == SelectMediaEntries(d.filelist)
       IN  [k \in 1..Len(m) |-> IF Decodes(m[k].data) THEN Thumbnail(m[k])
                                ELSE Placeholder(m[k])]

\* run_search_process.extract_images_from_docx: an empty or unreadable
\* entry is passed over (continue)
extract_images_skipping(d) ==
  IF ~d.valid THEN <<>>
  ELSE LET m    == SelectMediaEntries(d.filelist)
           kept == SelectSeq(m, LAMBDA e : Decodes(e.data))
       IN  [k \in 1..Len(kept) |-> Thumbnail(kept[k])]

extract_images_from_docx(drv, d) ==
  IF drv = "file_extractor" THEN extract_images_with_placeholders(d)
  ELSE extract_images_skipping(d)

\* run_search_process.get_media_filenames: the leaf names, sorted
get_media_filenames_sorted(d) == sort(get_media_filenames(d))

media_filenames(drv, d) ==
  IF drv = "file_extractor" THEN get_media_filenames(d)
  ELSE get_media_filenames_sorted(d)

InitAudit ==
  /\ driver \in AuditDrivers
  /\ docx \in AuditDocs
  /\ pc = "audit"
  /\ replacements = <<>>
  /\ listing = <<>>
  /\ media_files = <<>>
  /\ idx = 1
  /\ replacement_data = <<>>
  /\ resolved = <<>>
  /\ temp = NoFile
  /\ output = NoFile
  /\ result = "pending"
  /\ extracted = NoTree
  /\ work_dir = NoTree
  /\ replacement_success = TRUE
  /\ has_images = FALSE
  /\ input_file = NoFile
  /\ same_path = FALSE
  /\ output_before = NoFile
  /\ BatchIdle
  /\ AuxIdle

auditFrame == <<restVars, imgVars, loadVars, encVars, extractVars>>

\* file_extractor.save_to_excel_with_images: the images are extracted, then
\* the names are listed
ExtractImagesFirst ==
  /\ pc = "audit"
  /\ driver = "file_extractor"
  /\ images' = extract_images_from_docx(driver, docx)
  /\ pc' = "images"
  /\ UNCHANGED <<names, auditFrame>>

ListNamesSecond ==
  /\ pc = "images"
  /\ names' = media_filenames(driver, docx)
  /\ pc' = "paired"
  /\ UNCHANGED <<images, auditFrame>>

\* run_search_process: file_image_map is filled from get_media_filenames
\* while searching, the images are extracted when the report is written
ListNamesFirst ==
  /\ pc = "audit"
  /\ driver = "run_search_process"
  /\ names' = media_filenames(driver, docx)
  /\ pc' = "names"
  /\ UNCHANGED <<images, auditFrame>>

ExtractImagesSecond ==
  /\ pc = "names"
  /\ images' = extract_images_from_docx(driver, docx)
  /\ pc' = "paired"
  /\ UNCHANGED <<names, auditFrame>>

NextAudit ==
  \/ ExtractImagesFirst
  \/ ListNamesSecond
  \/ ListNamesFirst
  \/ ExtractImagesSecond

SpecAudit == InitAudit /\ [][NextAudit]_vars

(* --------------------------- candidate encodings ----------------------- *)
\* The candidate encodings of each loader, in the order they are tried
Candidates(drv) ==
  CASE drv = "image_replacer" ->
         <<"cp932", "shift-jis", "utf-8", "utf-8-sig", "latin1">>
    [] drv = "replace_processor" ->
         <<"utf-8", "cp932", "shift-jis", "utf-8-sig", "latin1">>
    [] drv = "image_replacer_v2" ->
         <<"cp932", "shift_jis", "utf-8", "utf-8-sig", "euc-jp",
           "iso-2022-jp">>

Encodings == UNION { {Candidates(d)[i] : i \in 1..Len(Candidates(d))} :
                     d \in Loaders }

\* The encoding detect_encoding returns when no candidate decodes the file
FallbackEncoding == "utf-8"

\* A file with a header row and one data row of one filled pair
SampleTable == <<HeaderRow(1), [c0 |-> "doc", pairs |-> <<"full">>]>>

\* pd.read_csv(path, encoding=enc): raises when the bytes do not decode
\* under enc, and (EmptyDataError) when the file is empty
read_csv_ok(enc) == enc \in decodes /\ lines # <<>>

\* The position of the first candidate under which the file decodes, or 0
FirstDecoding(drv) ==
  LET cand == Candidates(drv)
      ok   == {i \in 1..Len(cand) : cand[i] \in decodes}
  IN  IF ok = {} THEN 0 ELSE CHOOSE i \in ok : \A j \in ok : i <= j

InitEncoding ==
  /\ driver \in Loaders
  /\ pc = "try"
  /\ RestIdle
  /\ source = None
  /\ target_name = <<>>
  /\ payload = None
  /\ lines \in {<<>>, SampleTable}
  /\ loaded = <<>>
  /\ decodes \in SUBSET Encodings
  /\ enc_pos = 1
  /\ encoding = "-"
  /\ names = <<>>
  /\ images = <<>>
  /\ all_files = <<>>
  /\ structures = <<>>

encFrame == <<restVars, imgVars, lines, decodes, auditVars, extractVars>>

\* Variant of TryEncodingFails that moves on whether or not the candidate
\* reads
TryEncodingSkips ==
  /\ pc = "try"
  /\ driver # "image_replacer_v2"
  /\ enc_pos <= Len(Candidates(driver))
  /\ enc_pos' = enc_pos + 1
  /\ UNCHANGED <<pc, encoding, loaded, encFrame>>

\* load_replacement_orders / load_replacement_orders_from_csv: read_csv
\* raises under the current candidate, the loop continues with the next
TryEncodingFails ==
  /\ pc = "try"
  /\ driver # "image_replacer_v2"
  /\ enc_pos <= Len(Candidates(driver))
  /\ ~read_csv_ok(Candidates(driver)[enc_pos])
  /\ enc_pos' = enc_pos + 1
  /\ UNCHANGED <<pc, encoding, loaded, encFrame>>

\* read_csv succeeds under the current candidate: break, and the rows of
\* the table are turned into orders
TryEncodingReads ==
  /\ pc = "try"
  /\ driver # "image_replacer_v2"
  /\ enc_pos <= Len(Candidates(driver))
  /\ read_csv_ok(Candidates(driver)[enc_pos])
  /\ encoding' = Candidates(driver)[enc_pos]
  /\ loaded' = load_orders(driver, lines)
  /\ pc' = "loaded"
  /\ UNCHANGED <<enc_pos, encFrame>>

\* No candidate is left: df is None, the empty list is returned
NoEncodingReads ==
  /\ pc = "try"
  /\ driver # "image_replacer_v2"
  /\ enc_pos > Len(Candidates(driver))
  /\ loaded' = <<>>
  /\ pc' = "loaded"
  /\ UNCHANGED <<enc_pos, encoding, encFrame>>

\* detect_encoding: open(...).read() raises UnicodeDecodeError under the
\* current candidate
DetectEncodingFails ==
  /\ pc = "try"
  /\ driver = "image_replacer_v2"
  /\ enc_pos <= Len(Candidates(driver))
  /\ Candidates(driver)[enc_pos] \notin decodes
  /\ enc_pos' = enc_pos + 1
  /\ UNCHANGED <<pc, encoding, loaded, encFrame>>

\* detect_encoding: the current candidate decodes the whole file and is
\* returned
DetectEncodingReturns ==
  /\ pc = "try"
  /\ driver = "image_replacer_v2"
  /\ enc_pos <= Len(Candidates(driver))
  /\ Candidates(driver)[enc_pos] \in decodes
  /\ encoding' = Candidates(driver)[enc_pos]
  /\ pc' = "detected"
  /\ UNCHANGED <<enc_pos, loaded, encFrame>>

\* detect_encoding: no candidate decodes, 'utf-8' is returned with a warning
DetectEncodingFallback ==
  /\ pc = "try"
  /\ driver = "image_replacer_v2"
  /\ enc_pos > Len(Candidates(driver))
  /\ encoding' = FallbackEncoding
  /\ pc' = "detected"
  /\ UNCHANGED <<enc_pos, loaded, encFrame>>

\* read_replacement_csv: read_csv under the detected encoding; an exception
\* is caught and the empty list is returned
ReadDetected ==
  /\ pc = "detected"
  /\ loaded' = IF read_csv_ok(encoding) THEN load_orders(driver, lines)
               ELSE <<>>
  /\ pc' = "loaded"
  /\ UNCHANGED <<enc_pos, encoding, encFrame>>

NextEncoding ==
  \/ TryEncodingFails
  \/ TryEncodingReads
  \/ NoEncodingReads
  \/ DetectEncodingFails
  \/ DetectEncodingReturns
  \/ DetectEncodingFallback
  \/ ReadDetected

SpecEncoding == InitEncoding /\ [][NextEncoding]_vars

(* ----------------------------- batch drivers --------------------------- *)
DocxExt == <<".", "d", "o", "c", "x">>
PdfExt  == <<".", "p", "d", "f">>

\* Document paths an instruction file may name: two documents with the same
\* file name in different directories, a PDF and a file of another type
PathA   == <<"a", "/", "d", ".", "d", "o", "c", "x">>
PathB   == <<"b", "/", "d", ".", "d", "o", "c", "x">>
PathPdf == <<"d", ".", "p", "d", "f">>
PathTxt == <<"d", ".", "t", "x", "t">>
Paths == {PathA, PathB, PathPdf, PathTxt}

\* str.endswith
endswith(s, suffix) ==
  /\ Len(s) >= Len(suffix)
  /\ SubSeq(s, Len(s) - Len(suffix) + 1, Len(s)) = suffix

\* What lies at each path: nothing, a file that is no readable archive, or a
\* readable file
Disks ==
  { d \in [Paths -> {"missing", "corrupt", "good"}] :
      \A p \in Paths : d[p] = "corrupt" => endswith(p, DocxExt) }

\* The orders load_replacement_orders returns, one per row of the file
Orders == UNION { [1..k -> Paths] : k \in 0..MaxOrders }

InitBatch ==
  /\ driver \in Drivers
  /\ docx = [valid |-> FALSE, filelist |-> <<>>]
  /\ replacements = <<>>
  /\ listing = <<>>
  /\ pc = "batch"
  /\ media_files = <<>>
  /\ idx = 1
  /\ replacement_data = <<>>
  /\ resolved = <<>>
  /\ temp = NoFile
  /\ output = NoFile
  /\ result = "pending"
  /\ extracted = NoTree
  /\ work_dir = NoTree
  /\ replacement_success = TRUE
  /\ has_images = FALSE
  /\ input_file = NoFile
  /\ same_path = FALSE
  /\ output_before = NoFile
  /\ replacement_orders \in Orders
  /\ disk \in Disks
  /\ order_pos = 1
  /\ success_count = 0
  /\ fail_count = 0
  /\ out_dir = <<>>
  /\ printed = <<>>
  /\ AuxIdle

\* Everything a loop iteration of the batch driver leaves alone
batchFrame ==
  <<driver, docx, replacements, listing, media_files, idx, replacement_data,
    resolved, temp, output, result, dirVars, has_images, ioVars,
    replacement_orders, disk, auxVars>>

\* "if not replacement_orders: return": no summary is printed
BatchEmpty ==
  /\ pc = "batch"
  /\ replacement_orders = <<>>
  /\ pc' = "returned"
  /\ UNCHANGED <<batchFrame, order_pos, success_count, fail_count, out_dir, printed>>

\* Variant: a document that is not found ends the loop
BatchMissingBreaks ==
  /\ pc = "batch"
  /\ order_pos <= Len(replacement_orders)
  /\ disk[replacement_orders[order_pos]] = "missing"
  /\ printed' = Append(printed, replacement_orders[order_pos])
  /\ fail_count' = fail_count + 1
  /\ order_pos' = Len(replacement_orders) + 1
  /\ UNCHANGED <<batchFrame, pc, success_count, out_dir>>

\* One iteration with "if not os.path.exists(file_path)": a failure, continue
BatchMissing ==
  /\ pc = "batch"
  /\ order_pos <= Len(replacement_orders)
  /\ disk[replacement_orders[order_pos]] = "missing"
  /\ printed' = Append(printed, replacement_orders[order_pos])
  /\ fail_count' = fail_count + 1
  /\ order_pos' = order_pos + 1
  /\ UNCHANGED <<batchFrame, pc, success_count, out_dir>>

\* One iteration on a .docx for which replace_images_in_docx returns
\* output_path: the patched document is in the output directory under the
\* document's file name
BatchDocx ==
  /\ pc = "batch"
  /\ order_pos <= Len(replacement_orders)
  /\ LET file_path == replacement_orders[order_pos]
     IN /\ disk[file_path] = "good"
        /\ endswith(file_path, DocxExt)
        /\ out_dir' = DictPut(out_dir, basename(file_path),
                              [source |-> file_path, how |-> "patched"])
        /\ printed' = Append(printed, file_path)
  /\ success_count' = success_count + 1
  /\ order_pos' = order_pos + 1
  /\ UNCHANGED <<batchFrame, pc, fail_count>>

\* One iteration on a .docx for which replace_images_in_docx returns None:
\* the file is no readable archive, or reading or writing failed
BatchDocxFails ==
  /\ pc = "batch"
  /\ order_pos <= Len(replacement_orders)
  /\ LET file_path == replacement_orders[order_pos]
     IN /\ disk[file_path] # "missing"
        /\ endswith(file_path, DocxExt)
        /\ printed' = Append(printed, file_path)
  /\ fail_count' = fail_count + 1
  /\ order_pos' = order_pos + 1
  /\ UNCHANGED <<batchFrame, pc, success_count, out_dir>>

\* One iteration on a .pdf with replace_processor.replace_images_in_pdf
\* returning output_path: the file was copied to the output directory
BatchPdfCopied ==
  /\ pc = "batch"
  /\ order_pos <= Len(replacement_orders)
  /\ driver = "replace_processor"
  /\ LET file_path == replacement_orders[order_pos]
     IN /\ disk[file_path] # "missing"
        /\ ~endswith(file_path, DocxExt)
        /\ endswith(file_path, PdfExt)
        /\ out_dir' = DictPut(out_dir, basename(file_path),
                              [source |-> file_path, how |-> "copied"])
        /\ printed' = Append(printed, file_path)
  /\ success_count' = success_count + 1
  /\ order_pos' = order_pos + 1
  /\ UNCHANGED <<batchFrame, pc, fail_count>>

\* One iteration on a .pdf with replace_images_in_pdf returning None:
\* image_replacer's always does and copies nothing, replace_processor's does
\* when shutil.copy2 fails
BatchPdfFails ==
  /\ pc = "batch"
  /\ order_pos <= Len(replacement_orders)
  /\ LET file_path == replacement_orders[order_pos]
     IN /\ disk[file_path] # "missing"
        /\ ~endswith(file_path, DocxExt)
        /\ endswith(file_path, PdfExt)
        /\ printed' = Append(printed, file_path)
  /\ fail_count' = fail_count + 1
  /\ order_pos' = order_pos + 1
  /\ UNCHANGED <<batchFrame, pc, success_count, out_dir>>

\* One iteration on a file of another type: a failure
BatchUnsupported ==
  /\ pc = "batch"
  /\ order_pos <= Len(replacement_orders)
  /\ LET file_path == replacement_orders[order_pos]
     IN /\ disk[file_path] # "missing"
        /\ ~endswith(file_path, DocxExt)
        /\ ~endswith(file_path, PdfExt)
        /\ printed' = Append(printed, file_path)
  /\ fail_count' = fail_count + 1
  /\ order_pos' = order_pos + 1
  /\ UNCHANGED <<batchFrame, pc, success_count, out_dir>>

\* The loop is over: the counts are printed
BatchSummary ==
  /\ pc = "batch"
  /\ replacement_orders # <<>>
  /\ order_pos > Len(replacement_orders)
  /\ pc' = "summary"
  /\ UNCHANGED <<batchFrame, order_pos, success_count, fail_count, out_dir, printed>>

NextBatch ==
  \/ BatchEmpty
  \/ BatchMissing
  \/ BatchDocx
  \/ BatchDocxFails
  \/ BatchPdfCopied
  \/ BatchPdfFails
  \/ BatchUnsupported
  \/ BatchSummary

SpecBatch == InitBatch /\ [][NextBatch]_vars

(* ---------------------------- batch extractor -------------------------- *)
PathC == <<"c", ".", "d", "o", "c", "x">>

\* The .docx files glob may find under the search directory
DocxPaths == {PathA, PathB, PathC}

\* os.path.splitext(...)[0] of a file name
splitext_root(name) ==
  LET b == basename(name)
  IN  SubSeq(b, 1, Len(b) - Len(splitext_ext(b)))

UnsafeChars == {"\\", "/", ":", "*", "?", "\"", "<", ">", "|"}

\* batch_extractor.get_safe_dirname
get_safe_dirname(file_path) ==
  LET b == splitext_root(file_path)
  IN  [k \in 1..Len(b) |-> IF b[k] \in UnsafeChars THEN "_" ELSE b[k]]

\* A file of all_files: readable says whether the package opens (docx) or
\* the copy succeeds (pdf); result is the row printed for it
FoundFile(path, type, readable) ==
  [path |-> path, type |-> type, readable |-> readable, result |-> "-"]

DocxFound ==
  UNION { { [k \in 1..Len(s) |-> FoundFile(s[k], "docx", r[k])] :
              r \in [1..Len(s) -> BOOLEAN] } :
          s \in InjSeqs(DocxPaths, MaxFiles) }

PdfFound == { <<>> } \cup { <<FoundFile(PathPdf, "pdf", r)>> : r \in BOOLEAN }

\* all_files: the .docx files in the order glob returns them, then the .pdf
\* files
AllFiles == { d \o q : d \in DocxFound, q \in PdfFound }

SafeNames == { get_safe_dirname(q) : q \in DocxPaths \cup {PathPdf} }

\* An output directory: holds names the files whose structure is in it
NoStructure == [exists |-> FALSE, holds |-> {}]

InitExtract ==
  /\ driver = "batch_extractor"
  /\ pc = "extract"
  /\ RestIdle
  /\ source = None
  /\ target_name = <<>>
  /\ payload = None
  /\ lines = <<>>
  /\ loaded = <<>>
  /\ decodes = {}
  /\ enc_pos = 1
  /\ encoding = "-"
  /\ names = <<>>
  /\ images = <<>>
  /\ all_files \in AllFiles
  /\ structures = [n \in SafeNames |-> NoStructure]

extractFrame ==
  <<driver, docx, replacements, listing, media_files, replacement_data,
    resolved, temp, output, result, dirVars, has_images, ioVars,
    replacement_orders, disk, order_pos, out_dir, printed,
    imgVars, loadVars, encVars, auditVars>>

\* batch_extract_all_files: nothing was found
ExtractNone ==
  /\ pc = "extract"
  /\ all_files = <<>>
  /\ pc' = "returned"
  /\ UNCHANGED <<idx, success_count, fail_count, extractVars, extractFrame>>

\* extract_docx_structure: an existing output directory is removed, the
\* directory is made and every entry of the package is written into it
ExtractDocx ==
  /\ pc = "extract"
  /\ idx <= Len(all_files)
  /\ all_files[idx].type = "docx"
  /\ all_files[idx].readable
  /\ structures' = [structures EXCEPT
                      ![get_safe_dirname(all_files[idx].path)] =
                         [exists |-> TRUE, holds |-> {all_files[idx].path}]]
  /\ success_count' = success_count + 1
  /\ all_files' = [all_files EXCEPT ![idx].result = "success"]
  /\ idx' = idx + 1
  /\ UNCHANGED <<pc, fail_count, extractFrame>>

\* extract_docx_structure: the package does not open; the output directory
\* has already been removed and made again
ExtractDocxFails ==
  /\ pc = "extract"
  /\ idx <= Len(all_files)
  /\ all_files[idx].type = "docx"
  /\ ~all_files[idx].readable
  /\ structures' = [structures EXCEPT
                      ![get_safe_dirname(all_files[idx].path)] =
                         [exists |-> TRUE, holds |-> {}]]
  /\ fail_count' = fail_count + 1
  /\ all_files' = [all_files EXCEPT ![idx].result = "failure"]
  /\ idx' = idx + 1
  /\ UNCHANGED <<pc, success_count, extractFrame>>

\* extract_pdf_structure: the file and pdf_info.txt are written into the
\* output directory, which is kept when it exists
ExtractPdf ==
  /\ pc = "extract"
  /\ idx <= Len(all_files)
  /\ all_files[idx].type = "pdf"
  /\ all_files[idx].readable
  /\ structures' = [structures EXCEPT
                      ![get_safe_dirname(all_files[idx].path)] =
                         [exists |-> TRUE,
                          holds |-> @.holds \cup {all_files[idx].path}]]
  /\ success_count' = success_count + 1
  /\ all_files' = [all_files EXCEPT ![idx].result = "success"]
  /\ idx' = idx + 1
  /\ UNCHANGED <<pc, fail_count, extractFrame>>

\* extract_pdf_structure: shutil.copy2 raises after the directory was made
ExtractPdfFails ==
  /\ pc = "extract"
  /\ idx <= Len(all_files)
  /\ all_files[idx].type = "pdf"
  /\ ~all_files[idx].readable
  /\ structures' = [structures EXCEPT
                      ![get_safe_dirname(all_files[idx].path)] =
                         [exists |-> TRUE, holds |-> @.holds]]
  /\ fail_count' = fail_count + 1
  /\ all_files' = [all_files EXCEPT ![idx].result = "failure"]
  /\ idx' = idx + 1
  /\ UNCHANGED <<pc, success_count, extractFrame>>

\* The loop is over: the totals are printed
ExtractSummary ==
  /\ pc = "extract"
  /\ all_files # <<>>
  /\ idx > Len(all_files)
  /\ pc' = "done"
  /\ UNCHANGED <<idx, success_count, fail_count, extractVars, extractFrame>>

NextExtract ==
  \/ ExtractNone
  \/ ExtractDocx
  \/ ExtractDocxFails
  \/ ExtractPdf
  \/ ExtractPdfFails
  \/ ExtractSummary

SpecExtract == InitExtract /\ [][NextExtract]_vars

(* ======================================================================= *)
(*                               properties                                *)
(* ======================================================================= *)
\* The document was patched and written
Done == pc = "done" /\ result = "output_path"

\* The entries some target of the instruction was applied to
ResolvedSet == { resolved[i] : i \in 1..Len(resolved) } \ {<<>>}

\* The normalized bytes of the source image of target i
NormalizedOf(i) == prepare_replacement_image(replacements[i].replacement_path)

\* The payload stored under a name in a list of entries
PayloadAt(entries, name) ==
  entries[CHOOSE k \in 1..Len(entries) : entries[k].filename = name].data

\* The media catalog in native order: the non-directory entries under
\* word/media/, as they follow each other in the entry list
NativeCatalog == SelectMedia(docx.filelist)

\* The final path component of a name
LeafName(p) ==
  LET slashes == { k \in 1..Len(p) : p[k] = "/" }
      last == IF slashes = {} THEN 0
              ELSE CHOOSE k \in slashes : \A j \in slashes : j <= k
  IN SubSeq(p, last + 1, Len(p))

\* The ordinal of a token that is, as a whole, image<digits> in any letter
\* case; -1 for every other token
OrdinalOf(token) ==
  LET s == lower(token)
  IN IF /\ Len(s) >= 6
        /\ SubSeq(s, 1, 5) = ImageWord
        /\ \A k \in 6..Len(s) : IsDigit(s[k])
     THEN IntOf(SubSeq(s, 6, Len(s)))
     ELSE -1

\* C1: the written container has exactly the input's entries: same count,
\* same names in the same order, and every entry no target was applied to
\* has the payload it had in the input.
C1_EntriesPreserved ==
  Done =>
    /\ output.exists
    /\ Len(output.entries) = Len(docx.filelist)
    /\ \A k \in 1..Len(docx.filelist) :
         /\ k <= Len(output.entries)
         /\ output.entries[k].filename = docx.filelist[k].filename
         /\ (docx.filelist[k].filename \notin ResolvedSet
               => output.entries[k].data = docx.filelist[k].data)

C1_Witness ==
  /\ Done
  /\ Len(docx.filelist) = MaxEntries + 1
  /\ \E k \in 1..Len(docx.filelist) : is_dir(docx.filelist[k])
  /\ \E k \in 1..Len(docx.filelist) : output.entries[k].data # docx.filelist[k].data
  /\ \E k \in 2..Len(docx.filelist) : output.entries[k].data = docx.filelist[k].data

\* C2 as stated: every applied target finds its own normalized bytes at its
\* entry in the output, and no entry without a target holds those bytes.
C2_EveryTargetWritten ==
  Done =>
    \A i \in 1..Len(replacements) :
      resolved[i] # <<>> =>
        /\ PayloadAt(output.entries, resolved[i]) = NormalizedOf(i)
        /\ \A k \in 1..Len(output.entries) :
             output.entries[k].filename \notin ResolvedSet
               => output.entries[k].data # NormalizedOf(i)

\* C2 amended: the entry of an applied target holds the normalized bytes of
\* the last target of the instruction that resolves to that entry, and no
\* entry without a target holds replacement bytes.
C2_LastTargetWritten ==
  Done =>
    \A i \in 1..Len(replacements) :
      resolved[i] # <<>> =>
        /\ (\A j \in (i + 1)..Len(replacements) : resolved[j] # resolved[i])
              => PayloadAt(output.entries, resolved[i]) = NormalizedOf(i)
        /\ \A k \in 1..Len(output.entries) :
             output.entries[k].filename \notin ResolvedSet
               => output.entries[k].data # NormalizedOf(i)

C2_Witness ==
  /\ Done
  /\ Len(replacements) = 2
  /\ resolved[1] # <<>>
  /\ resolved[1] = resolved[2]
  /\ NormalizedOf(1) # NormalizedOf(2)
  /\ PayloadAt(output.entries, resolved[1]) = NormalizedOf(2)

\* C3 as stated: replace_processor applies image<k>, 1 <= k <= N, to the
\* k-th media entry in the native order of the archive's entry list.
C3_OrdinalInNativeOrder ==
  driver = "replace_processor" =>
    \A i \in 1..Len(resolved) :
      LET k == OrdinalOf(replacements[i].target)
      IN (k >= 1 /\ k <= Len(NativeCatalog) /\ NormalizedOf(i) # None)
           => resolved[i] = NativeCatalog[k]

\* C4 as stated: the entry replace_processor applies image<k> to carries the
\* name that file_extractor listed as the k-th image of the document.
C4_OrdinalMatchesListing ==
  driver = "replace_processor" =>
    \A i \in 1..Len(resolved) :
      LET k == OrdinalOf(replacements[i].target)
      IN (k >= 1 /\ k <= Len(listing) /\ resolved[i] # <<>>)
           => LeafName(resolved[i]) = listing[k]

\* What the reference grammar prescribes for a token over the catalog the
\* driver built: ordinal lookup for image<digits>, filename lookup otherwise
GrammarResolve(files, token) ==
  LET n == OrdinalOf(token)
      named == { k \in 1..Len(files) : LeafName(files[k]) = token }
  IN IF n # -1
     THEN (IF n >= 1 /\ n <= Len(files) THEN files[n] ELSE <<>>)
     ELSE (IF named = {} THEN <<>>
           ELSE files[CHOOSE k \in named : \A j \in named : k <= j])

\* C5 as stated: each driver resolves a token by ordinal exactly when the
\* whole token is image<digits>, and by leaf filename otherwise.
C5_ReferenceGrammar ==
  \A i \in 1..Len(resolved) :
    NormalizedOf(i) # None
      => resolved[i] = GrammarResolve(media_files, replacements[i].target)

\* C6: in replace_processor a target image<n> with n = 0 or n > N is skipped:
\* the step that handles it records no entry and leaves the replacement
\* payloads, hence the output, as they were.
C6_OutOfRangeSkipped ==
  [][ ( /\ driver = "replace_processor"
        /\ pc = "resolve"
        /\ idx <= Len(replacements)
        /\ LET n == OrdinalOf(replacements[idx].target)
           IN n = 0 \/ n > Len(NativeCatalog) )
      => ( /\ replacement_data' = replacement_data
           /\ resolved' = Append(resolved, <<>>) ) ]_vars

C6_Witness ==
  /\ Done
  /\ driver = "replace_processor"
  /\ Len(replacements) = 2
  /\ Len(NativeCatalog) >= 1
  /\ OrdinalOf(replacements[1].target) = 0
  /\ OrdinalOf(replacements[2].target) = Len(NativeCatalog) + 1
  /\ NormalizedOf(1) # None
  /\ NormalizedOf(2) # None
  /\ output.entries = docx.filelist

\* The media entries whose final path component is exactly the token
NamedBy(token) ==
  { k \in 1..Len(NativeCatalog) : LeafName(NativeCatalog[k]) = token }

\* C7: image_replacer resolves a leaf name carried by exactly one media entry
\* to that entry, and skips a name no media entry carries; only the final
\* path component counts, and letter case counts.
C7_FilenameLookup ==
  driver = "image_replacer" =>
    \A i \in 1..Len(resolved) :
      LET named == NamedBy(replacements[i].target)
      IN /\ named = {} => resolved[i] = <<>>
         /\ (Cardinality(named) = 1 /\ NormalizedOf(i) # None)
              => \E k \in named : resolved[i] = NativeCatalog[k]

C7_Witness ==
  /\ Done
  /\ driver = "image_replacer"
  /\ Len(replacements) = 2
  /\ Len(NativeCatalog) >= 2
  /\ Cardinality(NamedBy(replacements[1].target)) = 1
  /\ resolved[1] # <<>>
  /\ LeafName(resolved[1]) = replacements[1].target
  /\ NamedBy(replacements[2].target) = {}
  /\ NamedBy(lower(replacements[2].target)) # {}
  /\ NormalizedOf(2) # None
  /\ resolved[2] = <<>>

\* C8 as stated: when several media entries share the leaf name, image_replacer
\* applies the target to the one that comes first in the native entry order.
C8_DuplicateLeafFirstNative ==
  driver = "image_replacer" =>
    \A i \in 1..Len(resolved) :
      LET named == NamedBy(replacements[i].target)
      IN (Cardinality(named) >= 2 /\ resolved[i] # <<>>)
           => resolved[i] = NativeCatalog[CHOOSE k \in named : \A j \in named : k <= j]

\* C9 as stated: whatever the reference strings are, an entry whose payload
\* in the written document differs from the input is a file entry under
\* word/media/.
C9_OnlyMediaPayloadsChange ==
  Done =>
    \A k \in 1..Len(docx.filelist) :
      \A j \in 1..Len(output.entries) :
        ( /\ output.entries[j].filename = docx.filelist[k].filename
          /\ output.entries[j].data # docx.filelist[k].data )
          => IsMedia(docx.filelist[k])

\* C10: when no target was applied (an empty instruction, or every target
\* skipped) the written container equals the input: same entries, same
\* order, same payloads.
C10_RoundTrip ==
  (Done /\ ResolvedSet = {}) => (output.exists /\ output.entries = docx.filelist)

C10_Witness ==
  /\ Done
  /\ ResolvedSet = {}
  /\ Len(replacements) = MaxTargets
  /\ Len(NativeCatalog) >= 2
  /\ output.entries = docx.filelist

\* Target i of the instruction resolves to an entry and its source image can
\* be prepared
Appliable(i) ==
  /\ ResolveIndex(driver, CatalogOf(docx), replacements[i].target) # -1
  /\ NormalizedOf(i) # None

\* The last appliable target that resolves to the same entry as target i
LastOn(i) ==
  CHOOSE j \in i..Len(replacements) :
    /\ Appliable(j)
    /\ ResolveIndex(driver, CatalogOf(docx), replacements[j].target)
         = ResolveIndex(driver, CatalogOf(docx), replacements[i].target)
    /\ \A k \in (j + 1)..Len(replacements) :
         Appliable(k) =>
           ResolveIndex(driver, CatalogOf(docx), replacements[k].target)
             # ResolveIndex(driver, CatalogOf(docx), replacements[i].target)

\* C11: in replace_images_in_docx of image_replacer and replace_processor a
\* target that does not resolve, or whose source image is missing or cannot
\* be decoded, is skipped without ending the call: for a readable document the
\* output is written, every target was visited, and every target that
\* resolves with a usable source is applied to its entry, whatever happened
\* to the targets before and after it.
C11_SkippedTargetsDoNotAbort ==
  (pc = "done" /\ docx.valid) =>
    /\ result = "output_path"
    /\ output.exists
    /\ Len(resolved) = Len(replacements)
    /\ \A i \in 1..Len(replacements) :
         IF Appliable(i)
         THEN /\ resolved[i] =
                   CatalogOf(docx)[ResolveIndex(driver, CatalogOf(docx),
                                                replacements[i].target) + 1]
              /\ PayloadAt(output.entries, resolved[i]) = NormalizedOf(LastOn(i))
         ELSE resolved[i] = <<>>

\* A call that skipped its first target for an unusable source image and
\* applied its second
C11_Witness ==
  /\ Done
  /\ Len(replacements) = 2
  /\ ResolveIndex(driver, CatalogOf(docx), replacements[1].target) # -1
  /\ NormalizedOf(1) = None
  /\ Appliable(2)
  /\ PayloadAt(output.entries, resolved[2]) = NormalizedOf(2)

\* The file a reference of the directory-based driver leads to in the
\* extracted structure
StructureTarget(image_name) == Lookup(extracted, MediaDirPath, Split(image_name))

\* C12: in image_replacer_v2.process_image_replacements an instruction with
\* one resolvable and one unresolvable target still produces an output
\* document, and in it the resolvable target carries the new image.
C12_PartialFailureIsolated ==
  (/\ pc = "done"
   /\ extracted.exists
   /\ Len(replacements) = 2)
  => \A i, j \in 1..2 :
       (/\ i # j
        /\ replace_image_in_structure(extracted, replacements[i].target,
                                      replacements[i].replacement_path).ok
        /\ ~StructureTarget(replacements[j].target).found)
       => /\ result = "output_path"
          /\ output.exists
          /\ PayloadAt(output.entries, StructureTarget(replacements[i].target).path)
               = replace_image_in_structure(extracted, replacements[i].target,
                    replacements[i].replacement_path).tree.files[
                      StructureTarget(replacements[i].target).path]

\* The orders whose document is missing, no readable archive or of an
\* unsupported type
BadOrders ==
  { i \in 1..Len(replacement_orders) :
      \/ disk[replacement_orders[i]] # "good"
      \/ /\ ~endswith(replacement_orders[i], DocxExt)
         /\ ~endswith(replacement_orders[i], PdfExt) }

\* C13: process_image_replacement and process_image_replacement_from_csv
\* handle every instruction in order whatever happened to the earlier ones:
\* when the summary is printed every instruction was announced, in order,
\* success_count + fail_count is the number of instructions, and every
\* missing, unreadable or unsupported document counts as a failure.
C13_BatchCountsEveryInstruction ==
  /\ (pc = "batch" => /\ printed = SubSeq(replacement_orders, 1, order_pos - 1)
                      /\ success_count + fail_count = order_pos - 1)
  /\ (pc = "summary" =>
        /\ printed = replacement_orders
        /\ success_count + fail_count = Len(replacement_orders)
        /\ fail_count >= Cardinality(BadOrders)
        /\ success_count <= Len(replacement_orders) - Cardinality(BadOrders))

\* Three documents, the second no readable archive: two successes and one
\* failure
C13_Witness ==
  /\ pc = "summary"
  /\ Len(replacement_orders) = 3
  /\ BadOrders = {2}
  /\ disk[replacement_orders[2]] = "corrupt"
  /\ success_count = 2
  /\ fail_count = 1
  /\ printed = replacement_orders

\* C14: image_replacer_v2.process_image_replacements always reaches its final
\* summary: no error raised while one document is handled leaves the driver,
\* and every instruction ends as a success or as a reported failure (a
\* document skipped for want of its extracted structure is reported).
C14_DriverAlwaysCompletes ==
  /\ pc # "raised"
  /\ (pc = "done" => result \in {"output_path", "failed", "skipped"})

\* C15: replace_images_in_docx never changes the input document: whatever
\* output_dir is, also the directory of the input itself, the file at
\* file_path holds the bytes it held before the call.
C15_InputNeverMutated == input_file = InputFile(docx)

\* C16: replace_images_in_docx writes the output atomically: a call that
\* returns output_path leaves the complete new archive there, and a call
\* that returns None leaves at output_path what was there before the call.
C16_OutputAtomic ==
  pc = "done" =>
    /\ (result = "output_path" =>
          output = [exists |-> TRUE,
                    entries |-> new_zip(docx.filelist, replacement_data)])
    /\ (result = "None" => output = output_before)

\* C17: once the processing of a document has ended, however it ended,
\* nothing temporary made for it is left: no temporary archive of
\* replace_images_in_docx and no work directory of
\* image_replacer_v2.process_image_replacements.
C17_NothingTemporaryRemains ==
  pc \in {"done", "raised"} => (~temp.exists /\ ~work_dir.exists)

\* C18: every batch driver passes a PDF through: once the instruction of an
\* existing PDF has been handled, the output directory holds a copy of that
\* file under its base name (and the driver went on: nothing was raised).
C18_PdfPassThrough ==
  \A i \in 1..Len(printed) :
    (endswith(printed[i], PdfExt) /\ disk[printed[i]] = "good")
    => /\ basename(printed[i]) \in DOMAIN out_dir
       /\ out_dir[basename(printed[i])] = [source |-> printed[i], how |-> "copied"]

\* C19: the functions that decide media membership agree on the catalog, the
\* non-directory entries under word/media/: has_images_in_docx says True
\* exactly when get_media_filenames returns a non-empty list.
C19_SameCatalog ==
  pc # "list" => (has_images <=> listing # <<>>)

\* C20: the directory-based strategy (extract, replace files, rebuild) keeps
\* the container contract of the in-memory engine: the rebuilt archive has
\* one entry per entry of the original, under the same name and in the same
\* order, and no other entry; an entry that was not a replaced target has
\* the payload it had.
C20_RebuildKeepsContainer ==
  (pc = "done" /\ result = "output_path") =>
    /\ Len(output.entries) = Len(docx.filelist)
    /\ \A k \in 1..Len(docx.filelist) :
         /\ output.entries[k].filename = docx.filelist[k].filename
         /\ (\A i \in 1..Len(replacements) :
               StructureTarget(replacements[i].target).path
                 # docx.filelist[k].filename)
            => output.entries[k].data = docx.filelist[k].data

\* The number of entries of a list that carry a name
CountName(entries, name) ==
  Cardinality({ k \in 1..Len(entries) : entries[k].filename = name })

\* C26: when two targets of one instruction resolve to the same media entry,
\* replace_images_in_docx writes that entry once, and with the normalized
\* image of the later target: the earlier target's image is discarded.
C26_LaterTargetWins ==
  Done =>
    \A i, j \in 1..Len(replacements) :
      (/\ i < j
       /\ resolved[i] # <<>>
       /\ resolved[j] = resolved[i]
       /\ \A k \in (j + 1)..Len(replacements) : resolved[k] # resolved[i])
      => /\ CountName(output.entries, resolved[i]) = 1
         /\ PayloadAt(output.entries, resolved[i]) = NormalizedOf(j)

\* Two targets with different source images were applied to one entry
C26_Witness ==
  /\ Done
  /\ Len(replacements) = 2
  /\ resolved[1] # <<>>
  /\ resolved[2] = resolved[1]
  /\ NormalizedOf(1) # NormalizedOf(2)
  /\ PayloadAt(output.entries, resolved[1]) = NormalizedOf(2)

\* C27: after process_image_replacement every instruction counted as a
\* success has an output document of its own: instructions for documents
\* with different paths never write the same output file, so there are as
\* many output documents as successes, each the patch of its own instruction.
C27_OneOutputPerSuccess ==
  pc = "summary" =>
    /\ Cardinality(DOMAIN out_dir) = success_count
    /\ \A i \in 1..Len(replacement_orders) :
         (disk[replacement_orders[i]] = "good"
            /\ basename(replacement_orders[i]) \in DOMAIN out_dir)
         => out_dir[basename(replacement_orders[i])].source = replacement_orders[i]

\* An instruction whose document is an existing .pdf is being handled
AtPdf ==
  /\ pc = "batch"
  /\ order_pos <= Len(replacement_orders)
  /\ disk[replacement_orders[order_pos]] = "good"
  /\ endswith(replacement_orders[order_pos], PdfExt)

\* C30: process_image_replacement and process_image_replacement_from_csv
\* classify the instruction of an existing .pdf alike: handling it adds one
\* to fail_count and never to success_count.
C30_PdfCountedAsFailure ==
  [][AtPdf => (success_count' = success_count /\ fail_count' = fail_count + 1)]_vars

\* An image was encoded
Encoded == pc = "encoded" /\ payload \notin {None, Empty}

\* C21: the output format is one function of the target's extension, the
\* same on every patch path: whichever function encoded the image, the
\* format is the one prepare_replacement_image and the one
\* replace_image_in_structure choose for that target.
C21_OneFormatPolicy ==
  Encoded =>
    /\ payload.format = StructureFormat(target_name)
    /\ payload.format = "JPEG"

\* Modes that carry an alpha channel or a palette
AlphaOrPalette == {"LA", "PA", "RGBA", "P"}

\* C25: the normalizer converts every source image whose mode carries an
\* alpha channel or a palette to RGB before it encodes, and leaves every
\* other mode as it is; no encoded payload has an alpha channel or a palette.
C25_AlphaAndPaletteFlattened ==
  (pc = "encoded" /\ source.exists /\ source.decodable) =>
    /\ (source.mode \in AlphaOrPalette => (Encoded /\ payload.mode = "RGB"))
    /\ ((source.mode \notin AlphaOrPalette /\ Encoded) => payload.mode = source.mode)
    /\ (Encoded => payload.mode \notin AlphaOrPalette)

\* Some order was made of row i of the file
HasOrder(i) == \E k \in 1..Len(loaded) : loaded[k].row = i

\* C22: each order loader skips the first row exactly when its column 0 is
\* the header label: a first row that is a valid data row (a document path
\* and a filled first pair) yields an order, a header row yields none.
C22_HeaderSkippedIffLabelled ==
  (/\ pc = "loaded"
   /\ lines # <<>>
   /\ lines[1].c0 # ""
   /\ lines[1].pairs[1] = "full")
  => (HasOrder(1) <=> lines[1].c0 # HeaderLabel)

\* The orders the rows of a file stand for: one per data row with a document
\* path and at least one pair with both cells filled, made of all such pairs
ExpectedOrders(first) ==
  SelectSeq([i \in 1..Len(lines) |->
               [file_path |-> lines[i].c0, row |-> i,
                replacements |->
                  SelectSeq([k \in 1..Len(lines[i].pairs) |-> k],
                            LAMBDA k : lines[i].pairs[k] = "full")]],
            LAMBDA o : o.row >= first /\ o.file_path # "" /\ o.replacements # <<>>)

\* C23: load_replacement_orders and load_replacement_orders_from_csv take
\* pair k of a data row exactly when both its cells are filled, for every k,
\* keep pairs in column order and orders in row order, and make no order of
\* a row with an empty column 0 or without such a pair.
C23_PairIncludedIffBothFilled ==
  (pc = "loaded" /\ driver \in Drivers /\ lines # <<>>)
  => loaded = ExpectedOrders(start_row(driver, lines))

C28_NamesAndImagesAligned ==
  pc = "paired" =>
    LET m == IF docx.valid THEN SelectMediaEntries(docx.filelist) ELSE <<>>
    IN  /\ Len(images) = Len(names)
        /\ Len(images) = Len(m)
        /\ \A i \in 1..Len(images) :
              /\ i <= Len(names) => names[i] = basename(images[i].of)
              /\ i <= Len(m) =>
                    /\ images[i].of = m[i].filename
                    /\ images[i].shown = "placeholder" <=> ~Decodes(m[i].data)

\* C29: at every point of the batch, each file already reported as a
\* success has its structure in its output directory, and when the batch
\* is over success_count + fail_count is the number of files found
C29_StructuresKept ==
  driver = "batch_extractor" =>
    /\ \A i \in 1..Len(all_files) :
          all_files[i].result = "success" =>
            all_files[i].path
              \in structures[get_safe_dirname(all_files[i].path)].holds
    /\ pc = "done" => success_count + fail_count = Len(all_files)

====
